---- MODULE Spec2Model ----
(***************************************************************************)
(* A model of the startuppong client library (src/src/lib.rs,              *)
(* src/src/error.rs): the credential holder, the GET/JSON transport        *)
(* helper, the three endpoint functions, the name resolution routine and   *)
(* add_match_with_names.  The library is synchronous and single-threaded:  *)
(* one call runs at a time, and the model follows it statement by          *)
(* statement through `pc`.  The remote service and the process environment *)
(* are the nondeterministic inputs.                                        *)
(***************************************************************************)
EXTENDS Integers, Sequences, FiniteSets, TLC

VARIABLES
    account,    \* the Account the caller holds, or NoAccount
    op,         \* the public function being run, "idle" between calls
    pc,         \* the statement the running call has reached
    new_args,   \* Account::new: the arguments `id` and `key`
    env,        \* the two environment variables from_env read
    names,      \* get_players_ids: the `names` argument
    players,    \* get_players_ids: the local `players`
    ids,        \* get_players_ids: the local `ids`
    ni,         \* get_players_ids: index of the next element of `names`
    examined,   \* the fragments the outer loop has taken up so far, in order
    winner_id,  \* add_match: argument
    loser_id,   \* add_match: argument
    res,        \* get: the local `res`, the response of the GET
    body,       \* get: the local `body`, the text read from `res`
    wire,       \* the HTTP requests the running call has issued, in order
    ret         \* the value the running call returned

vars == <<account, op, pc, new_args, env, names, players, ids, ni, examined,
          winner_id, loser_id, res, body, wire, ret>>

-----------------------------------------------------------------------------
(* Bounds of the model.                                                    *)

MaxNames == 2      \* longest `names` vector passed to get_players_ids
MaxPlayers == 2    \* most player objects in a leaderboard payload
MaxMatches == 2    \* most match objects in a match-history payload

\* All sequences over S of length at most n.
SeqsUpTo(S, n) == UNION { [1..k -> S] : k \in 0..n }

-----------------------------------------------------------------------------
(* Text.  A string is a sequence of characters, so that substring search   *)
(* is computed and not assumed.                                            *)

\* Letter case folded, for the characters the pools below use.
Lower(c) ==
    IF c = "C" THEN "c" ELSE IF c = "J" THEN "j" ELSE IF c = "Z" THEN "z" ELSE c

LowerStr(s) == [i \in 1..Len(s) |-> Lower(s[i])]

\* Contains, were it to ignore letter case.
ContainsIgnoreCase(hay, needle) ==
    \E o \in 0..(Len(hay) - Len(needle)) :
        SubSeq(LowerStr(hay), o + 1, o + Len(needle)) = LowerStr(needle)

\* str::contains(&str): the needle occurs at some offset of the haystack.
Contains(hay, needle) ==
    \E o \in 0..(Len(hay) - Len(needle)) :
        SubSeq(hay, o + 1, o + Len(needle)) = needle

-----------------------------------------------------------------------------
(* Numbers.  A JSON number and a decoded integer is a natural number       *)
(* written in 16-bit limbs, least significant first and without leading    *)
(* zero limbs, so that the 32-bit and 64-bit fields keep their widths.     *)

Radix == 2^16

\* The number k < Radix.
N(k) == IF k = 0 THEN <<>> ELSE <<k>>

\* The number lo + hi * Radix, hi > 0.
N2(lo, hi) == <<lo, hi>>

\* 2^32 and 2^64 - 1: the first number a u32 cannot hold, the last a u64 can.
TwoTo32 == <<0, 0, 1>>
U64Max == <<Radix - 1, Radix - 1, Radix - 1, Radix - 1>>

\* u32 / u64 fields: a JSON number decodes when it fits the field's type.
FitsU32(n) == Len(n) <= 2
FitsU64(n) == Len(n) <= 4

\* 2^24, up to which every integer is an f32, as <<lo, hi>>.
F32Exact == N2(0, 2^8)

\* f32 fields: a JSON number is rounded to the nearest f32 (24 bits of
\* mantissa, ties to even); written out for magnitudes below 2^25.
F32(n) ==
    IF Len(n) < 2 \/ n[1] % 2 = 0 \/ n[2] < F32Exact[2] THEN n
    ELSE IF (n[1] \div 2) % 2 = 0 THEN N2(n[1] - 1, n[2])
    ELSE IF n[1] + 1 < Radix THEN N2(n[1] + 1, n[2])
    ELSE N2(0, n[2] + 1)

-----------------------------------------------------------------------------
(* JSON.  A JSON value is a number or a string; a JSON object is a record  *)
(* holding the keys that are present.                                      *)

JNum(n) == [t |-> "num", v |-> n]
JStr(s) == [t |-> "str", v |-> s]

DecOk(v) == [ok |-> TRUE, val |-> v]
DecErr(e) == [ok |-> FALSE, err |-> e]

\* Reading one field of an object as u32, u64, f32 or String.
ReadField(obj, key, type) ==
    IF key \notin DOMAIN obj THEN DecErr("MissingFieldError")
    ELSE LET j == obj[key] IN
         CASE type = "u32" ->
                IF j.t = "num" /\ FitsU32(j.v) THEN DecOk(j.v) ELSE DecErr("ExpectedError")
           [] type = "u64" ->
                IF j.t = "num" /\ FitsU64(j.v) THEN DecOk(j.v) ELSE DecErr("ExpectedError")
           [] type = "f32" ->
                IF j.t = "num" THEN DecOk(F32(j.v)) ELSE DecErr("ExpectedError")
           [] type = "String" ->
                IF j.t = "str" THEN DecOk(j.v) ELSE DecErr("ExpectedError")

\* struct Player: the fields in declaration order, with their types.
PlayerFields == << <<"id", "u32">>, <<"rating", "f32">>, <<"rank", "u32">>,
                   <<"name", "String">> >>

\* struct Match: the fields in declaration order, with their types.
MatchFields == << <<"loser_rating_after", "f32">>, <<"winner_rating_after", "f32">>,
                  <<"played_time", "u64">>, <<"loser_rank_after", "u32">>,
                  <<"winner_name", "String">>, <<"winner_rank_before", "u32">>,
                  <<"winner_rating_before", "f32">>, <<"loser_name", "String">>,
                  <<"winner_id", "u32">>, <<"loser_rank_before", "u32">>,
                  <<"loser_rating_before", "f32">>, <<"id", "u64">>,
                  <<"winner_rank_after", "u32">>, <<"loser_id", "u32">> >>

FieldNames(fields) == { fields[i][1] : i \in 1..Len(fields) }

\* The derived Decodable of a struct: read the fields in order, stop at the
\* first that fails.
RECURSIVE FirstFieldError(_, _, _)
FirstFieldError(obj, fields, i) ==
    IF i > Len(fields) THEN "none"
    ELSE LET r == ReadField(obj, fields[i][1], fields[i][2]) IN
         IF r.ok THEN FirstFieldError(obj, fields, i + 1) ELSE r.err

DecodeStruct(obj, fields) ==
    LET e == FirstFieldError(obj, fields, 1) IN
    IF e # "none" THEN DecErr(e)
    ELSE DecOk([k \in FieldNames(fields) |->
                  LET at == CHOOSE i \in 1..Len(fields) : fields[i][1] = k
                  IN ReadField(obj, k, fields[at][2]).val])

\* The derived Decodable of Vec<T>: the elements in order, stop at the first
\* that fails.
RECURSIVE FirstElemError(_, _, _)
FirstElemError(arr, fields, i) ==
    IF i > Len(arr) THEN "none"
    ELSE LET r == DecodeStruct(arr[i], fields) IN
         IF r.ok THEN FirstElemError(arr, fields, i + 1) ELSE r.err

\* DecodeVec, were it to hand the elements back last first.
DecodeVecReversed(arr, fields) ==
    LET e == FirstElemError(arr, fields, 1) IN
    IF e # "none" THEN [ok |-> FALSE, err |-> e]
    ELSE [ok |-> TRUE,
          val |-> [i \in 1..Len(arr) |-> DecodeStruct(arr[Len(arr) + 1 - i], fields).val]]

DecodeVec(arr, fields) ==
    LET e == FirstElemError(arr, fields, 1) IN
    IF e # "none" THEN DecErr(e)
    ELSE DecOk([i \in 1..Len(arr) |-> DecodeStruct(arr[i], fields).val])

\* A response body: text that is no JSON at all, or a JSON object `doc`.
NotJson == [json |-> FALSE]
JsonDoc(doc) == [json |-> TRUE, doc |-> doc]

\* json::decode::<GetPlayersResponse>
DecodePlayersResponse(text) ==
    IF ~text.json THEN DecErr("ParseError")
    ELSE IF "players" \notin DOMAIN text.doc THEN DecErr("MissingFieldError")
    ELSE LET v == DecodeVec(text.doc.players, PlayerFields) IN
         IF v.ok THEN DecOk([players |-> v.val]) ELSE v

\* json::decode::<GetMatchesResponse>
DecodeMatchesResponse(text) ==
    IF ~text.json THEN DecErr("ParseError")
    ELSE IF "matches" \notin DOMAIN text.doc THEN DecErr("MissingFieldError")
    ELSE LET v == DecodeVec(text.doc.matches, MatchFields) IN
         IF v.ok THEN DecOk([matches |-> v.val]) ELSE v

\* GetPlayersResponse::players, GetMatchesResponse::matches
PlayersOf(response) == response.players
MatchesOf(response) == response.matches

-----------------------------------------------------------------------------
(* The inputs: what callers pass and what the remote service answers.      *)

Collin == <<"C", "o">>
Joe == <<"J", "o">>
Eshaan == <<"E", "s">>

\* Name fragments callers pass: the empty fragment, one that two names
\* contain, exact names, a wrong-case one and one no name contains.
Fragments == { <<>>, <<"o">>, <<"C">>, <<"c">>, Joe, <<"Z">> }

\* Player objects of a leaderboard payload that match struct Player.
GoodPlayerObjects ==
    { [name |-> JStr(Eshaan), rank |-> JNum(N(1)), rating |-> JNum(N(561)), id |-> JNum(N(89))],
      [name |-> JStr(Collin), rank |-> JNum(N(2)), rating |-> JNum(N2(1, F32Exact[2])), id |-> JNum(N(55))],
      [name |-> JStr(Joe), rank |-> JNum(N(3)), rating |-> JNum(N(484)), id |-> JNum(N(60))] }

\* Player objects that do not: a missing field, a number too big for u32.
BadPlayerObjects ==
    { [name |-> JStr(Joe), rank |-> JNum(N(3)), rating |-> JNum(N(484))],
      [name |-> JStr(Joe), rank |-> JNum(N(3)), rating |-> JNum(N(484)), id |-> JNum(TwoTo32)] }

PlayerObjects == GoodPlayerObjects \cup BadPlayerObjects

MatchObject(winner, loser, wid, lid, time, mid) ==
    [loser_rating_after |-> JNum(N(513)), winner_rating_after |-> JNum(N(635)),
     played_time |-> time, loser_rank_after |-> JNum(N(5)), winner_name |-> winner,
     winner_rank_before |-> JNum(N(2)), winner_rating_before |-> JNum(N2(3, F32Exact[2])),
     loser_name |-> loser, winner_id |-> wid, loser_rank_before |-> JNum(N(5)),
     loser_rating_before |-> JNum(N(517)), id |-> mid, winner_rank_after |-> JNum(N(2)),
     loser_id |-> lid]

\* Match objects that match struct Match; the second has a played_time and
\* an id that only fit 64 bits.
GoodMatchObjects ==
    { MatchObject(JStr(Collin), JStr(Eshaan), JNum(N(55)), JNum(N(58)), JNum(N2(5319, 21865)), JNum(N(1093))),
      MatchObject(JStr(Joe), JStr(Collin), JNum(N(60)), JNum(N(55)), JNum(<<8, 0, 1>>), JNum(U64Max)) }

\* Match objects that do not: a name that is a number, a missing field.
BadMatchObjects ==
    { MatchObject(JNum(N(7)), JStr(Eshaan), JNum(N(55)), JNum(N(58)), JNum(N2(5319, 21865)), JNum(N(1093))),
      [winner_name |-> JStr(Collin), loser_name |-> JStr(Joe)] }

MatchObjects == GoodMatchObjects \cup BadMatchObjects

\* The bodies the remote service may send.
Bodies ==
    { NotJson, JsonDoc([error |-> JStr(<<"n", "o">>)]) }
    \cup { JsonDoc([players |-> l]) : l \in SeqsUpTo(PlayerObjects, MaxPlayers) }
    \cup { JsonDoc([matches |-> l]) : l \in SeqsUpTo(MatchObjects, MaxMatches) }

Statuses == { 200, 500 }

\* A response the transport delivered: its status, and its body unless
\* reading the body fails.
Responses ==
    { [status |-> s, readable |-> TRUE, text |-> b] : s \in Statuses, b \in Bodies }
    \cup { [status |-> s, readable |-> FALSE] : s \in Statuses }

\* What add_match's POST may be answered with.
PostResponses ==
    { [status |-> s, readable |-> TRUE, text |-> b] :
        s \in Statuses, b \in { NotJson, JsonDoc([error |-> JStr(<<"n", "o">>)]) } }

\* Player ids callers pass to add_match.
CallerIds == { N(55), N(60) }

\* One environment variable: not set, set to bytes that are no valid
\* Unicode, or set to text.
EnvAbsent == [st |-> "absent"]
EnvNotUnicode == [st |-> "invalid"]
EnvText(s) == [st |-> "text", val |-> s]

EnvAccountIds == { EnvAbsent, EnvNotUnicode, EnvText("id2") }
EnvAccessKeys == { EnvAbsent, EnvNotUnicode, EnvText("key2") }

-----------------------------------------------------------------------------
(* Results and errors.                                                     *)

Ok(v) == [kind |-> "Ok", val |-> v]
Err(e) == [kind |-> "Err", err |-> e]
Unit == "()"

\* From<io::Error>, were it to build the Http variant.
FromIoErrorAsHttp(e) == [tag |-> "Http", cause |-> e]

\* enum ApiError and its From impls.
PlayerNotFound(name) == [tag |-> "PlayerNotFound", name |-> name]
FromHyperError(e) == [tag |-> "Http", cause |-> e]
FromIoError(e) == [tag |-> "Io", cause |-> e]
FromDecoderError(e) == [tag |-> "JsonDecoding", cause |-> e]

\* std::env::var
EnvVar(v) ==
    CASE v.st = "absent" -> Err("NotPresent")
      [] v.st = "invalid" -> Err("NotUnicode")
      [] v.st = "text" -> Ok(v.val)

-----------------------------------------------------------------------------
(* The credential holder.                                                  *)

NoAccount == [built |-> FALSE]

\* Account::new
AccountNew(id, key) == [built |-> TRUE, api_account_id |-> id, api_access_key |-> key]

\* Account::id, Account::key
AccountId(a) == a.api_account_id
AccountKey(a) == a.api_access_key

\* from_env, were it to read the two variables into each other's place.
FromEnvSwapped(e) ==
    LET i == EnvVar(e.STARTUPPONG_ACCESS_KEY)
        k == EnvVar(e.STARTUPPONG_ACCOUNT_ID)
    IN IF i.kind = "Err" THEN i
       ELSE IF k.kind = "Err" THEN k
       ELSE [kind |-> "Ok",
             val |-> [built |-> TRUE, api_account_id |-> i.val, api_access_key |-> k.val]]

\* Account::from_env: the two try!s, the id first.
FromEnv(e) ==
    LET i == EnvVar(e.STARTUPPONG_ACCOUNT_ID)
        k == EnvVar(e.STARTUPPONG_ACCESS_KEY)
    IN IF i.kind = "Err" THEN i
       ELSE IF k.kind = "Err" THEN k
       ELSE Ok(AccountNew(i.val, k.val))

-----------------------------------------------------------------------------
(* The requests the endpoint functions build.                              *)

GetPlayersPath == "/api/v1/get_players"
GetMatchesPath == "/api/v1/get_recent_matches_for_company"
AddMatchPath == "/api/v1/add_match"

\* The URL of get_players and get_recent_matches_for_company.
GetRequest(path, a) ==
    [method |-> "GET", path |-> path,
     api_account_id |-> AccountId(a), api_access_key |-> AccountKey(a)]

\* The URL, header and body of add_match.
PostRequest(a, winner, loser) ==
    [method |-> "POST", path |-> AddMatchPath,
     content_type |-> "application/x-www-form-urlencoded",
     api_account_id |-> AccountId(a), api_access_key |-> AccountKey(a),
     winner_id |-> winner, loser_id |-> loser]

-----------------------------------------------------------------------------
(* The state between calls.                                                *)

NoArgs == [given |-> FALSE]
NoEnv == [read |-> FALSE]
NoResponse == [sent |-> FALSE]
NoBody == [filled |-> FALSE]
NoReturn == [kind |-> "None"]

Init ==
    /\ account = NoAccount
    /\ op = "idle"
    /\ pc = "idle"
    /\ new_args = NoArgs
    /\ env = NoEnv
    /\ names = <<>>
    /\ players = <<>>
    /\ ids = <<>>
    /\ ni = 0
    /\ examined = <<>>
    /\ winner_id = N(0)
    /\ loser_id = N(0)
    /\ res = NoResponse
    /\ body = NoBody
    /\ wire = <<>>
    /\ ret = NoReturn

Idle == op = "idle" /\ pc = "idle"

\* The call has returned `r`.
Finish(r) == ret' = r /\ pc' = "done"

-----------------------------------------------------------------------------
(* Account::new and Account::from_env.                                     *)

CallAccountNew ==
    /\ Idle
    /\ \E id \in {"id1"}, key \in {"key1"} :
         /\ new_args' = [given |-> TRUE, id |-> id, key |-> key]
         /\ account' = AccountNew(id, key)
         /\ op' = "Account::new"
         /\ Finish(Ok(AccountNew(id, key)))
    /\ UNCHANGED <<env, names, players, ids, ni, examined, winner_id, loser_id,
                   res, body, wire>>

CallFromEnv ==
    /\ Idle
    /\ \E i \in EnvAccountIds, k \in EnvAccessKeys :
         LET e == [STARTUPPONG_ACCOUNT_ID |-> i, STARTUPPONG_ACCESS_KEY |-> k]
             r == FromEnv(e)
         IN /\ env' = e
            /\ op' = "Account::from_env"
            /\ account' = IF r.kind = "Ok" THEN r.val ELSE account
            /\ Finish(r)
    /\ UNCHANGED <<new_args, names, players, ids, ni, examined, winner_id,
                   loser_id, res, body, wire>>

-----------------------------------------------------------------------------
(* Entering the endpoint functions.                                        *)

\* get_players: the URL is built, `get` is entered.
CallGetPlayers ==
    /\ Idle /\ account # NoAccount
    /\ op' = "get_players"
    /\ pc' = "send"
    /\ UNCHANGED <<account, new_args, env, names, players, ids, ni, examined, winner_id,
                   loser_id, res, body, wire, ret>>

\* get_recent_matches_for_company: the URL is built, `get` is entered.
CallGetRecentMatches ==
    /\ Idle /\ account # NoAccount
    /\ op' = "get_recent_matches_for_company"
    /\ pc' = "send"
    /\ UNCHANGED <<account, new_args, env, names, players, ids, ni, examined, winner_id,
                   loser_id, res, body, wire, ret>>

\* get_players_ids: its first statement calls get_players.
CallGetPlayersIds ==
    /\ Idle /\ account # NoAccount
    /\ \E ns \in SeqsUpTo(Fragments, MaxNames) : names' = ns
    /\ op' = "get_players_ids"
    /\ pc' = "send"
    /\ UNCHANGED <<account, new_args, env, players, ids, ni, examined, winner_id, loser_id,
                   res, body, wire, ret>>

\* add_match_with_names: names = vec![winner, loser], then get_players_ids.
CallAddMatchWithNames ==
    /\ Idle /\ account # NoAccount
    /\ \E winner \in Fragments, loser \in Fragments : names' = <<winner, loser>>
    /\ op' = "add_match_with_names"
    /\ pc' = "send"
    /\ UNCHANGED <<account, new_args, env, players, ids, ni, examined, winner_id, loser_id,
                   res, body, wire, ret>>

\* add_match called by the caller with two ids.
CallAddMatch ==
    /\ Idle /\ account # NoAccount
    /\ \E w \in CallerIds, l \in CallerIds : winner_id' = w /\ loser_id' = l
    /\ op' = "add_match"
    /\ pc' = "post"
    /\ UNCHANGED <<account, new_args, env, names, players, ids, ni, examined, res, body,
                   wire, ret>>

-----------------------------------------------------------------------------
(* get: GET, read the body, decode.                                        *)

\* The path the running call fetches.
GetPath == IF op = "get_recent_matches_for_company" THEN GetMatchesPath ELSE GetPlayersPath

\* try!(client.get(url).send())
GetSend ==
    /\ pc = "send"
    /\ wire' = Append(wire, GetRequest(GetPath, account))
    /\ \/ /\ Finish(Err(FromHyperError("send")))
          /\ UNCHANGED res
       \/ /\ \E r \in Responses : res' = r
          /\ pc' = "read"
          /\ UNCHANGED ret
    /\ UNCHANGED <<account, op, new_args, env, names, players, ids, ni, examined, winner_id,
                   loser_id, body>>

\* try!(res.read_to_string(&mut body))
GetRead ==
    /\ pc = "read"
    /\ IF res.readable
       THEN /\ body' = [filled |-> TRUE, text |-> res.text]
            /\ pc' = "decode"
            /\ UNCHANGED ret
       ELSE /\ Finish(Err(FromIoError("read_to_string")))
            /\ UNCHANGED body
    /\ UNCHANGED <<account, op, new_args, env, names, players, ids, ni, examined, winner_id,
                   loser_id, res, wire>>

\* json::decode::<T>(&body) for the T of the running call.
Decode(text) ==
    IF op = "get_recent_matches_for_company"
    THEN DecodeMatchesResponse(text) ELSE DecodePlayersResponse(text)

\* Ok(try!(json::decode::<T>(&body))), and what the caller of `get` does
\* with the value: get_players and get_recent_matches_for_company return
\* it, get_players_ids unwraps it and starts its loop.
GetDecode ==
    /\ pc = "decode"
    /\ LET d == Decode(body.text) IN
       IF ~d.ok
       THEN /\ Finish(Err(FromDecoderError(d.err)))
            /\ UNCHANGED <<players, ids, ni>>
       ELSE IF op \in {"get_players", "get_recent_matches_for_company"}
       THEN /\ Finish(Ok(d.val))
            /\ UNCHANGED <<players, ids, ni>>
       ELSE /\ players' = PlayersOf(d.val)
            /\ ids' = <<>>
            /\ ni' = 1
            /\ pc' = "resolve"
            /\ UNCHANGED ret
    /\ UNCHANGED <<account, op, new_args, env, names, examined, winner_id, loser_id, res,
                   body, wire>>

-----------------------------------------------------------------------------
(* get_players_ids: the loop over `names`.                                 *)

\* The inner loop without its break: the last matching player wins.
RECURSIVE ScanPlayersLast(_, _, _, _)
ScanPlayersLast(ps, name, acc, i) ==
    IF i > Len(ps) THEN acc
    ELSE LET rest == ScanPlayersLast(ps, name, acc, i + 1) IN
         IF Len(rest) > Len(acc) THEN rest
         ELSE IF Contains(ps[i].name, name) THEN Append(acc, ps[i].id)
         ELSE acc

\* The inner loop: push the id of the first player whose name contains
\* `name` and break; `acc` comes back unchanged when no name does.
RECURSIVE ScanPlayers(_, _, _, _)
ScanPlayers(ps, name, acc, i) ==
    IF i > Len(ps) THEN acc
    ELSE IF Contains(ps[i].name, name) THEN Append(acc, ps[i].id)
    ELSE ScanPlayers(ps, name, acc, i + 1)

\* ResolveName, were it to go on to the next name when no player matches.
ResolveNameSkip ==
    /\ pc = "resolve"
    /\ ni <= Len(names)
    /\ examined' = Append(examined, names[ni])
    /\ ids' = ScanPlayers(players, names[ni], ids, 1)
    /\ ni' = ni + 1
    /\ UNCHANGED <<account, op, pc, new_args, env, names, players, winner_id,
                   loser_id, res, body, wire, ret>>

\* ResolveName, were it to ask for the player list again for every name.
ResolveNameRefetch ==
    /\ pc = "resolve"
    /\ ni <= Len(names)
    /\ wire' = Append(wire, GetRequest(GetPlayersPath, account))
    /\ examined' = Append(examined, names[ni])
    /\ ids' = ScanPlayers(players, names[ni], ids, 1)
    /\ IF Len(ids') = Len(ids)
       THEN /\ ret' = [kind |-> "Err", err |-> PlayerNotFound(names[ni])]
            /\ pc' = "done"
            /\ UNCHANGED ni
       ELSE /\ ni' = ni + 1
            /\ UNCHANGED <<pc, ret>>
    /\ UNCHANGED <<account, op, new_args, env, names, players, winner_id, loser_id,
                   res, body>>

\* One pass of the outer loop, for names[ni].
ResolveName ==
    /\ pc = "resolve"
    /\ ni <= Len(names)
    /\ LET name == names[ni]
           len_before == Len(ids)
           pushed == ScanPlayers(players, name, ids, 1)
       IN /\ examined' = Append(examined, name)
          /\ ids' = pushed
          /\ IF Len(pushed) = len_before
             THEN /\ Finish(Err(PlayerNotFound(name)))
                  /\ UNCHANGED ni
             ELSE /\ ni' = ni + 1
                  /\ UNCHANGED <<pc, ret>>
    /\ UNCHANGED <<account, op, new_args, env, names, players, winner_id, loser_id, res,
                   body, wire>>

\* ResolveDone, were add_match_with_names to pass ids[1] as the winner.
ResolveDoneSwapped ==
    /\ pc = "resolve"
    /\ ni > Len(names)
    /\ IF op = "get_players_ids"
       THEN /\ ret' = [kind |-> "Ok", val |-> ids]
            /\ pc' = "done"
            /\ UNCHANGED <<winner_id, loser_id>>
       ELSE /\ winner_id' = ids[2]
            /\ loser_id' = ids[1]
            /\ pc' = "post"
            /\ UNCHANGED ret
    /\ UNCHANGED <<account, op, new_args, env, names, players, ids, ni, examined,
                   res, body, wire>>

\* ResolveDone, were add_match_with_names to refuse a player against itself.
ResolveDoneDistinct ==
    /\ pc = "resolve"
    /\ ni > Len(names)
    /\ IF op = "get_players_ids"
       THEN /\ ret' = [kind |-> "Ok", val |-> ids]
            /\ pc' = "done"
            /\ UNCHANGED <<winner_id, loser_id>>
       ELSE IF ids[1] = ids[2]
       THEN /\ ret' = [kind |-> "Err", err |-> PlayerNotFound(names[2])]
            /\ pc' = "done"
            /\ UNCHANGED <<winner_id, loser_id>>
       ELSE /\ winner_id' = ids[1]
            /\ loser_id' = ids[2]
            /\ pc' = "post"
            /\ UNCHANGED ret
    /\ UNCHANGED <<account, op, new_args, env, names, players, ids, ni, examined,
                   res, body, wire>>

\* The loop is over: Ok(ids).  get_players_ids returns it;
\* add_match_with_names calls add_match(account, ids[0], ids[1]).
ResolveDone ==
    /\ pc = "resolve"
    /\ ni > Len(names)
    /\ IF op = "get_players_ids"
       THEN /\ Finish(Ok(ids))
            /\ UNCHANGED <<winner_id, loser_id>>
       ELSE /\ winner_id' = ids[1]
            /\ loser_id' = ids[2]
            /\ pc' = "post"
            /\ UNCHANGED ret
    /\ UNCHANGED <<account, op, new_args, env, names, players, ids, ni, examined, res, body,
                   wire>>

-----------------------------------------------------------------------------
(* add_match: the POST.                                                    *)

\* PostSend, were add_match to turn a status other than 200 into an error.
PostSendCheckStatus ==
    /\ pc = "post"
    /\ wire' = Append(wire, PostRequest(account, winner_id, loser_id))
    /\ pc' = "done"
    /\ \/ /\ ret' = [kind |-> "Err", err |-> FromHyperError("send")]
          /\ UNCHANGED res
       \/ \E r \in PostResponses :
            /\ res' = r
            /\ ret' = IF r.status = 200 THEN [kind |-> "Ok", val |-> "()"]
                      ELSE [kind |-> "Err", err |-> FromHyperError("status")]
    /\ UNCHANGED <<account, op, new_args, env, names, players, ids, ni, examined,
                   winner_id, loser_id, body>>

\* try!(client.post(url).header(..).body(&data).send()); Ok(()).  The
\* response is dropped unread; `res` keeps it for the record.
PostSend ==
    /\ pc = "post"
    /\ wire' = Append(wire, PostRequest(account, winner_id, loser_id))
    /\ \/ /\ Finish(Err(FromHyperError("send")))
          /\ UNCHANGED res
       \/ /\ \E r \in PostResponses : res' = r
          /\ Finish(Ok(Unit))
    /\ UNCHANGED <<account, op, new_args, env, names, players, ids, ni, examined, winner_id,
                   loser_id, body>>

-----------------------------------------------------------------------------
(* The call is over: its locals go, the caller keeps its Account.          *)

Return ==
    /\ pc = "done"
    /\ op' = "idle"
    /\ pc' = "idle"
    /\ new_args' = NoArgs
    /\ env' = NoEnv
    /\ names' = <<>>
    /\ players' = <<>>
    /\ ids' = <<>>
    /\ ni' = 0
    /\ examined' = <<>>
    /\ winner_id' = N(0)
    /\ loser_id' = N(0)
    /\ res' = NoResponse
    /\ body' = NoBody
    /\ wire' = <<>>
    /\ ret' = NoReturn
    /\ UNCHANGED account

Next ==
    \/ CallAccountNew
    \/ CallFromEnv
    \/ CallGetPlayers
    \/ CallGetRecentMatches
    \/ CallGetPlayersIds
    \/ CallAddMatchWithNames
    \/ CallAddMatch
    \/ GetSend
    \/ GetRead
    \/ GetDecode
    \/ ResolveName
    \/ ResolveDone
    \/ PostSend
    \/ Return

Spec == Init /\ [][Next]_vars

-----------------------------------------------------------------------------
(* What the properties below speak of, stated without the operators of     *)
(* the model above.                                                        *)

\* f occurs in name between some two positions.
IsSubstring(f, name) ==
    \E i \in 0..Len(name) : \E j \in i..Len(name) : SubSeq(name, i + 1, j) = f

\* The position in ps of the first player whose name has f in it, 0 if none.
FirstIndex(ps, f) ==
    IF \E k \in 1..Len(ps) : IsSubstring(f, ps[k].name)
    THEN CHOOSE k \in 1..Len(ps) :
           /\ IsSubstring(f, ps[k].name)
           /\ \A j \in 1..(k - 1) : ~IsSubstring(f, ps[j].name)
    ELSE 0

\* The positions in ns of the fragments no player's name has in it.
Unmatched(ps, ns) == { i \in 1..Len(ns) : FirstIndex(ps, ns[i]) = 0 }

\* The least element of a non-empty set of numbers.
Least(S) == CHOOSE i \in S : \A j \in S : i <= j

IsNum(o, k, limbs) == k \in DOMAIN o /\ o[k].t = "num" /\ Len(o[k].v) <= limbs
IsText(o, k) == k \in DOMAIN o /\ o[k].t = "str"

PlayerIntKeys == {"id", "rank"}
MatchU32Keys == {"loser_rank_after", "winner_rank_before", "winner_id",
                 "loser_rank_before", "winner_rank_after", "loser_id"}
MatchU64Keys == {"played_time", "id"}
MatchTextKeys == {"winner_name", "loser_name"}
MatchFloatKeys == {"loser_rating_after", "winner_rating_after",
                   "winner_rating_before", "loser_rating_before"}

\* A payload object with every field of a player, each of its JSON type.
WellFormedPlayer(o) ==
    /\ \A k \in PlayerIntKeys : IsNum(o, k, 2)
    /\ IsNum(o, "rating", 4)
    /\ IsText(o, "name")

\* A payload object with every field of a match, each of its JSON type.
WellFormedMatch(o) ==
    /\ \A k \in MatchU32Keys : IsNum(o, k, 2)
    /\ \A k \in MatchU64Keys : IsNum(o, k, 4)
    /\ \A k \in MatchFloatKeys : IsNum(o, k, 4)
    /\ \A k \in MatchTextKeys : IsText(o, k)

WellFormedPlayersPayload(text) ==
    /\ text.json
    /\ "players" \in DOMAIN text.doc
    /\ \A i \in 1..Len(text.doc.players) : WellFormedPlayer(text.doc.players[i])

WellFormedMatchesPayload(text) ==
    /\ text.json
    /\ "matches" \in DOMAIN text.doc
    /\ \A i \in 1..Len(text.doc.matches) : WellFormedMatch(text.doc.matches[i])

Gets(w) == SelectSeq(w, LAMBDA r : r.method = "GET")
Posts(w) == SelectSeq(w, LAMBDA r : r.method = "POST")

\* The running call goes through get_players_ids.
Resolving == op \in {"get_players_ids", "add_match_with_names"}

\* The running call goes through get.
Getting == op \in {"get_players", "get_recent_matches_for_company",
                   "get_players_ids", "add_match_with_names"}

\* The player list came back and decoded.
Fetched == body # NoBody /\ WellFormedPlayersPayload(body.text)

\* get_players_ids is over: it returned, or add_match_with_names went on
\* past it with its Ok.
ResolutionOver ==
    \/ Resolving /\ pc = "done"
    \/ op = "add_match_with_names" /\ pc = "post"

\* What get_players_ids returned.
ResolutionResult ==
    IF op = "add_match_with_names" /\ (pc = "post" \/ Posts(wire) # <<>>)
    THEN [kind |-> "Ok", val |-> ids]
    ELSE ret

-----------------------------------------------------------------------------
(* The claims.                                                             *)

\* C1: when get_players_ids succeeds on fragments f1..fn against the
\* fetched list P, the result has exactly n ids and the i-th id is the id
\* of the first player of P, in P's order, whose name contains fi as a
\* case-sensitive substring.
C1_FirstMatchIds ==
    (ResolutionOver /\ ResolutionResult.kind = "Ok") =>
        /\ Len(ResolutionResult.val) = Len(names)
        /\ \A i \in 1..Len(names) :
             /\ FirstIndex(players, names[i]) # 0
             /\ ResolutionResult.val[i] = players[FirstIndex(players, names[i])].id

\* get_players_ids returned two ids, the first for a fragment that two
\* players of the list have in their names.
C1_Witness ==
    /\ op = "get_players_ids" /\ pc = "done" /\ ret.kind = "Ok"
    /\ Len(names) = 2 /\ Len(ret.val) = 2
    /\ Cardinality({ k \in 1..Len(players) : IsSubstring(names[1], players[k].name) }) = 2
    /\ players[1].id # players[2].id

\* C2: when some fragment matches no player of the fetched list, the call
\* returns PlayerNotFound carrying the first such fragment in input order,
\* returns no ids, and has examined no fragment after that one.
C2_FirstUnmatchedFails ==
    (ResolutionOver /\ Fetched /\ Unmatched(players, names) # {}) =>
        LET k == Least(Unmatched(players, names)) IN
        /\ ret = [kind |-> "Err", err |-> [tag |-> "PlayerNotFound", name |-> names[k]]]
        /\ examined = SubSeq(names, 1, k)

\* The second fragment matched no player after the first had matched one:
\* an id had been collected when the call failed.
C2_Witness ==
    /\ op = "get_players_ids" /\ pc = "done" /\ Fetched
    /\ Len(names) = 2
    /\ Unmatched(players, names) = {2}
    /\ Len(ids) = 1

\* C3 as stated: every fragment of the list that matches no player is the
\* one the name-not-found error carries, whatever the other fragments are.
C3_CarriesEveryUnmatched ==
    (ResolutionOver /\ Fetched) =>
        \A i \in Unmatched(players, names) :
            ret = [kind |-> "Err", err |-> [tag |-> "PlayerNotFound", name |-> names[i]]]

\* C3 as amended: a fragment that matches no player makes the call fail with
\* a name-not-found error whatever the other fragments are; the error
\* carries that fragment when every fragment before it matches a player,
\* and otherwise a fragment before it that matches none.
C3_UnmatchedFails ==
    (ResolutionOver /\ Fetched) =>
        \A i \in Unmatched(players, names) :
            /\ ret.kind = "Err"
            /\ ret.err.tag = "PlayerNotFound"
            /\ (\A j \in 1..(i - 1) : j \notin Unmatched(players, names))
                  => ret.err.name = names[i]
            /\ \E j \in 1..i : j \in Unmatched(players, names) /\ ret.err.name = names[j]

\* Two different fragments, neither matching a player: the error carries
\* the first and not the second.
C3_Witness ==
    /\ op = "get_players_ids" /\ pc = "done" /\ Fetched
    /\ Unmatched(players, names) = {1, 2}
    /\ names[1] # names[2]
    /\ players # <<>>
    /\ ret.kind = "Err" /\ ret.err.tag = "PlayerNotFound" /\ ret.err.name = names[1]

\* The failure get_players_ids ends in, from what the remote service sent.
ExpectedResolutionFailure ==
    IF res = NoResponse THEN "Http"
    ELSE IF ~res.readable THEN "Io"
    ELSE IF ~WellFormedPlayersPayload(res.text) THEN "JsonDecoding"
    ELSE "PlayerNotFound"

\* C4: add_match_with_names issues an add-match POST only after the fetch
\* and the resolution of both fragments succeeded; it then issues exactly
\* one, with the first fragment's id as winner_id and the second's as
\* loser_id; when the fetch or the resolution fails it issues none and
\* returns that failure.
C4_PostAfterResolution ==
    op = "add_match_with_names" =>
        /\ Len(Posts(wire)) <= 1
        /\ Posts(wire) # <<>> =>
             /\ Len(wire) = 2
             /\ wire[1].method = "GET" /\ wire[1].path = GetPlayersPath
             /\ Fetched
             /\ Unmatched(players, names) = {}
             /\ wire[2].path = AddMatchPath
             /\ wire[2].winner_id = players[FirstIndex(players, names[1])].id
             /\ wire[2].loser_id = players[FirstIndex(players, names[2])].id
        /\ (pc = "done" /\ Fetched /\ Unmatched(players, names) = {}) =>
             Len(Posts(wire)) = 1
        /\ (pc = "done" /\ Posts(wire) = <<>>) =>
             /\ ret.kind = "Err"
             /\ ret.err.tag = ExpectedResolutionFailure
             /\ ret.err.tag = "PlayerNotFound" =>
                  ret.err.name = names[Least(Unmatched(players, names))]

\* The POST went out for two fragments that resolve to different players.
C4_Witness ==
    /\ op = "add_match_with_names" /\ pc = "done"
    /\ Len(Posts(wire)) = 1
    /\ wire[2].winner_id # wire[2].loser_id
    /\ ret.kind = "Ok"

\* C5: a call of get_players_ids issues exactly one get_players request,
\* before it examines any fragment, whatever the number of fragments and
\* also when it ends in PlayerNotFound; when that request fails the call
\* returns its error without examining any fragment.
C5_OneFetch ==
    Resolving =>
        /\ Len(Gets(wire)) <= 1
        /\ \A i \in 1..Len(wire) : wire[i].method = "GET" => wire[i].path = GetPlayersPath
        /\ examined # <<>> => (Len(Gets(wire)) = 1 /\ wire[1].method = "GET")
        /\ pc \in {"read", "decode", "resolve", "post", "done"} => Len(Gets(wire)) = 1
        /\ (pc = "done" /\ ret.kind = "Err" /\ ret.err.tag # "PlayerNotFound"
              /\ Posts(wire) = <<>>) => examined = <<>>

\* A call with two fragments ended in PlayerNotFound on the second, one
\* request on the wire.
C5_Witness ==
    /\ op = "get_players_ids" /\ pc = "done"
    /\ Len(examined) = 2
    /\ ret.kind = "Err" /\ ret.err.tag = "PlayerNotFound"
    /\ Len(wire) = 1

\* C6: add_match returns success whenever the POST completes at the
\* transport level, whatever status and body came back, and returns an
\* error only when the transport fails, and then the Http kind.
C6_AddMatchIgnoresStatus ==
    (op = "add_match" /\ pc = "done") =>
        /\ res # NoResponse => ret = [kind |-> "Ok", val |-> "()"]
        /\ res = NoResponse => (ret.kind = "Err" /\ ret.err.tag = "Http")
        /\ Len(wire) = 1 /\ wire[1].method = "POST"

\* add_match returned Ok although the remote service answered 500.
C6_Witness ==
    /\ op = "add_match" /\ pc = "done"
    /\ res # NoResponse /\ res.status = 500
    /\ ret.kind = "Ok"

\* The payload the running call's type expects.
WellFormedPayload(text) ==
    IF op = "get_recent_matches_for_company"
    THEN WellFormedMatchesPayload(text) ELSE WellFormedPlayersPayload(text)

C8_DecodePreserves ==
    /\ (op = "get_players" /\ pc = "done" /\ body # NoBody
          /\ WellFormedPlayersPayload(body.text)) =>
         /\ ret.kind = "Ok"
         /\ Len(PlayersOf(ret.val)) = Len(body.text.doc.players)
         /\ \A i \in 1..Len(body.text.doc.players) :
              \A k \in PlayerIntKeys \cup {"name"} :
                 PlayersOf(ret.val)[i][k] = body.text.doc.players[i][k].v
    /\ (op = "get_recent_matches_for_company" /\ pc = "done" /\ body # NoBody
          /\ WellFormedMatchesPayload(body.text)) =>
         /\ ret.kind = "Ok"
         /\ Len(MatchesOf(ret.val)) = Len(body.text.doc.matches)
         /\ \A i \in 1..Len(body.text.doc.matches) :
              \A k \in MatchU32Keys \cup MatchU64Keys \cup MatchTextKeys :
                 MatchesOf(ret.val)[i][k] = body.text.doc.matches[i][k].v

\* Two different match objects, one with a played_time beyond 32 bits, came
\* back as two records.
C8_Witness ==
    /\ op = "get_recent_matches_for_company" /\ pc = "done" /\ ret.kind = "Ok"
    /\ Len(MatchesOf(ret.val)) = 2
    /\ MatchesOf(ret.val)[1] # MatchesOf(ret.val)[2]
    /\ Len(MatchesOf(ret.val)[2].played_time) > 2

\* from_env, when it has returned: Ok exactly when both variables are text,
\* and then an Account whose id() and key() are the two values; otherwise
\* the environment error and no Account.  new, when it has returned: an
\* Account whose id() and key() are the arguments.
C9_Built ==
    /\ (op = "Account::from_env" /\ pc = "done") =>
         LET i == env.STARTUPPONG_ACCOUNT_ID
             k == env.STARTUPPONG_ACCESS_KEY
         IN /\ ret.kind = "Ok" <=> (i.st = "text" /\ k.st = "text")
            /\ ret.kind = "Ok" =>
                 /\ AccountId(ret.val) = i.val
                 /\ AccountKey(ret.val) = k.val
                 /\ account = ret.val
            /\ ret.kind # "Ok" =>
                 /\ ret.kind = "Err"
                 /\ ret.err \in {"NotPresent", "NotUnicode"}
                 /\ "val" \notin DOMAIN ret
    /\ (op = "Account::new" /\ pc = "done") =>
         /\ ret.kind = "Ok"
         /\ AccountId(ret.val) = new_args.id
         /\ AccountKey(ret.val) = new_args.key
         /\ account = ret.val

\* The Account the caller holds changes only when a constructor hands out
\* a new one: no other step touches what id() and key() return.
C9_Kept ==
    account' # account =>
        /\ op = "idle"
        /\ op' \in {"Account::new", "Account::from_env"}
        /\ ret'.kind = "Ok"
        /\ account' = ret'.val

\* C9: from_env succeeds exactly when both variables are present and valid
\* text, and id() and key() then return them; otherwise it fails with the
\* environment error and builds no Account; an Account keeps its id and
\* key for its whole life, whatever endpoint functions are called with it.
C9_AccountContract == [](C9_Built) /\ [][C9_Kept]_vars

\* An Account read from the environment went through add_match_with_names
\* and still has the two values.
C9_Witness ==
    /\ op = "add_match_with_names" /\ pc = "done"
    /\ account # NoAccount
    /\ AccountId(account) = "id2" /\ AccountKey(account) = "key2"
    /\ wire[1].api_account_id = "id2" /\ wire[1].api_access_key = "key2"

\* The two fragments of add_match_with_names pick the same player of the
\* fetched list.
SamePlayer ==
    /\ op = "add_match_with_names"
    /\ Fetched
    /\ pc \in {"post", "done"}
    /\ FirstIndex(players, names[1]) # 0
    /\ FirstIndex(players, names[1]) = FirstIndex(players, names[2])

\* C10: add_match_with_names does not check that the two resolved players
\* differ: when both fragments pick the same player it posts a match with
\* winner_id equal to loser_id instead of failing.
C10_SelfMatchPosted ==
    SamePlayer =>
        /\ winner_id = loser_id
        /\ winner_id = players[FirstIndex(players, names[1])].id
        /\ pc = "done" =>
             /\ Len(Posts(wire)) = 1
             /\ wire[2].winner_id = wire[2].loser_id
             /\ ret.kind = "Err" => ret.err.tag = "Http"

\* Two different fragments, one of them empty, picked the same player and
\* the match was posted.
C10_Witness ==
    /\ SamePlayer /\ pc = "done"
    /\ names[1] # names[2]
    /\ <<>> \in {names[1], names[2]}
    /\ Len(players) = 2
    /\ ret.kind = "Ok"

====
